---- MODULE Spec2Model ----
(***************************************************************************)
(* Model of the "Filter by value" transformer of                           *)
(* packages/grafana-data/src/transformations/transformers/filterByValue.ts *)
(*                                                                         *)
(* A call  transformer(options)(data)  walks the frames of data, runs the  *)
(* filters of options.valueFilters over each frame, records a decision per *)
(* row in the array includeThisRow and copies the rows whose decision is   *)
(* truthy into a new frame.  The state machine follows the code one filter  *)
(* iteration at a time; Transformer is the same call as one operator.      *)
(*                                                                         *)
(* JavaScript values are modelled as strings: a cell of a field is one of  *)
(* Values or "undefined" (what Vector.get returns past the end), an entry  *)
(* of includeThisRow is "true", "false" or "undefined" (an array hole or a *)
(* never assigned index).  Sequences are 1-based, the code's row and       *)
(* filter indices are 0-based: row r of the code is element r + 1.         *)
(***************************************************************************)
EXTENDS Integers, Sequences, FiniteSets, TLC

(***************************************************************************)
(* Bounds of the explored inputs.                                          *)
(***************************************************************************)
MaxFrames == 2

MaxRows == 2

MaxFilters == 2

Values == {"ok", "fail"}

Undefined == "undefined"

FieldNames == {"a", "b"}

\* The field layouts of the input frames: field "a" alone, or "a" and "b".
FrameShapes == {<<"a">>, <<"a", "b">>}

Max(x, y) == IF x >= y THEN x ELSE y

SeqsUpTo(S, n) == UNION {[1..k -> S] : k \in 0..n}

(***************************************************************************)
(* The value-filter registry (valueFiltersRegistry of ../valueFilters,     *)
(* not part of the excerpt).  One registered kind, "equal", whose instance *)
(* is valid iff it has a non-empty expression and whose test compares the  *)
(* value with the expression.  Any other filterType is not registered and  *)
(* makes Registry.get throw.                                               *)
(***************************************************************************)
RegisteredKinds == {"equal"}

FilterTypes == {"equal", "unknown"}

\* "" stands for a null or empty filterExpression.
Expressions == {"", "ok"}

registryHas(filterType) == filterType \in RegisteredKinds

getInstance(filter, fieldType) ==
    [isValid |-> filter.filterExpression # "",
     expression |-> filter.filterExpression]

test(filterInstance, value) == value = filterInstance.expression

(***************************************************************************)
(* Input domains.                                                          *)
(***************************************************************************)
FramesOfShape(shape, n) ==
    {[fields |-> [j \in 1..Len(shape) |->
                    [name |-> shape[j], type |-> "string", values |-> v[j]]],
      length |-> n] : v \in [1..Len(shape) -> [1..n -> Values]]}

InputFrames == UNION {FramesOfShape(shape, n) : shape \in FrameShapes, n \in 0..MaxRows}

\* The expression of an unregistered kind is never read; it is fixed to "".
InputFilters ==
    {f \in [fieldName : FieldNames, filterType : FilterTypes, filterExpression : Expressions] :
        f.filterType \in RegisteredKinds \/ f.filterExpression = ""}

InputOptions ==
    [valueFilters : SeqsUpTo(InputFilters, MaxFilters),
     type : {"include", "exclude"},
     match : {"all", "any"}]

(***************************************************************************)
(* Helpers of the transformer.                                             *)
(***************************************************************************)
\* The boolean b as stored in includeThisRow.
Flag(b) == IF b THEN "true" ELSE "false"

\* lines 63-69: index of the first field whose display name is fieldName, 0 for null.
FindField(frame, fieldName) ==
    LET hits == {j \in 1..Len(frame.fields) : frame.fields[j].name = fieldName}
    IN IF hits = {} THEN 0 ELSE CHOOSE j \in hits : \A k \in hits : j <= k

\* Vector.get(row): the value at 0-based index row, undefined past the end.
VectorGet(values, row) == IF row + 1 <= Len(values) THEN values[row + 1] ELSE Undefined

\* includeThisRow[row] = v on a JavaScript array: writing past the end grows the
\* array and leaves holes in between.
SetRow(arr, row, v) ==
    [i \in 1..Max(Len(arr), row + 1) |->
        IF i = row + 1 THEN v
        ELSE IF i <= Len(arr) THEN arr[i] ELSE Undefined]

\* lines 90-94 and 99-103: the decision written for one row, "keep" for no write.
RowDecision(matched, filterIndex, includeRow, matchAll) ==
    IF matchAll
    THEN IF ~matched THEN Flag(~includeRow)
         ELSE IF filterIndex = 0 THEN Flag(includeRow) ELSE "keep"
    ELSE IF matched THEN Flag(includeRow)
         ELSE IF filterIndex = 0 THEN Flag(~includeRow) ELSE "keep"

\* lines 89-95 and 98-104: the row loop of one valid filter, from row on.
RECURSIVE TestRows(_, _, _, _, _, _, _, _)
TestRows(arr, row, frame, field, filterInstance, filterIndex, includeRow, matchAll) ==
    IF row >= frame.length THEN arr
    ELSE LET d == RowDecision(test(filterInstance, VectorGet(field.values, row)),
                              filterIndex, includeRow, matchAll)
         IN TestRows(IF d = "keep" THEN arr ELSE SetRow(arr, row, d),
                     row + 1, frame, field, filterInstance, filterIndex, includeRow, matchAll)

\* FilterStep with the registry lookup made before the field is resolved.
FilterStepEagerLookup(arr, frame, filter, filterIndex, includeRow, matchAll) ==
    LET j == FindField(frame, filter.fieldName)
    IN IF ~registryHas(filter.filterType) THEN [threw |-> TRUE, includeThisRow |-> arr]
       ELSE IF j = 0 THEN [threw |-> FALSE, includeThisRow |-> arr]
       ELSE LET filterInstance == getInstance(filter, frame.fields[j].type)
            IN IF ~filterInstance.isValid THEN [threw |-> FALSE, includeThisRow |-> arr]
               ELSE [threw |-> FALSE,
                     includeThisRow |-> TestRows(arr, 0, frame, frame.fields[j], filterInstance,
                                                 filterIndex, includeRow, matchAll)]

\* lines 60-105: one iteration of the filter loop.  threw is the failure of
\* valueFiltersRegistry.get on an unregistered filterType.
FilterStep(arr, frame, filter, filterIndex, includeRow, matchAll) ==
    LET j == FindField(frame, filter.fieldName)
    IN IF j = 0 THEN [threw |-> FALSE, includeThisRow |-> arr]
       ELSE IF ~registryHas(filter.filterType) THEN [threw |-> TRUE, includeThisRow |-> arr]
       ELSE LET filterInstance == getInstance(filter, frame.fields[j].type)
            IN IF ~filterInstance.isValid THEN [threw |-> FALSE, includeThisRow |-> arr]
               ELSE [threw |-> FALSE,
                     includeThisRow |-> TestRows(arr, 0, frame, frame.fields[j], filterInstance,
                                                 filterIndex, includeRow, matchAll)]

\* line 59: the filter loop of one frame, from filterIndex on.
RECURSIVE FilterLoop(_, _, _, _, _, _)
FilterLoop(arr, frame, valueFilters, filterIndex, includeRow, matchAll) ==
    IF filterIndex >= Len(valueFilters) THEN [threw |-> FALSE, includeThisRow |-> arr]
    ELSE LET r == FilterStep(arr, frame, valueFilters[filterIndex + 1], filterIndex,
                             includeRow, matchAll)
         IN IF r.threw THEN r
            ELSE FilterLoop(r.includeThisRow, frame, valueFilters, filterIndex + 1,
                            includeRow, matchAll)

\* lines 121-129: the 0-based rows copied to the output, in ascending order.
RECURSIVE IncludedRows(_, _)
IncludedRows(arr, row) ==
    IF row >= Len(arr) THEN <<>>
    ELSE IF arr[row + 1] = "true" THEN <<row>> \o IncludedRows(arr, row + 1)
    ELSE IncludedRows(arr, row + 1)

\* lines 108-134: the new frame, the fields copied with the included rows only.
BuildFrame(frame, arr) ==
    LET rows == IncludedRows(arr, 0)
    IN [fields |-> [j \in 1..Len(frame.fields) |->
                      [name |-> frame.fields[j].name,
                       type |-> frame.fields[j].type,
                       values |-> [i \in 1..Len(rows) |->
                                     VectorGet(frame.fields[j].values, rows[i])]]],
        length |-> Len(rows)]

\* ReturnValue without the fallback to the input.
ReturnValueAlwaysProcessed(data, processed, arr) ==
    [outcome |-> "processed", frames |-> processed]

\* lines 137-141: what the call returns after the frame loop.
ReturnValue(data, processed, arr) ==
    IF Len(arr) > 0 THEN [outcome |-> "processed", frames |-> processed]
    ELSE [outcome |-> "data", frames |-> data]

\* lines 58-141: the frame loop from frame k on, then the return.
RECURSIVE FrameLoop(_, _, _, _, _)
FrameLoop(options, data, k, arr, processed) ==
    IF k > Len(data) THEN ReturnValue(data, processed, arr)
    ELSE LET r == FilterLoop(arr, data[k], options.valueFilters, 0,
                             options.type = "include", options.match = "all")
         IN IF r.threw THEN [outcome |-> "error", frames |-> <<>>]
            ELSE FrameLoop(options, data, k + 1, r.includeThisRow,
                           Append(processed, BuildFrame(data[k], r.includeThisRow)))

\* lines 45-143: the whole call transformer(options)(data).
Transformer(options, data) ==
    IF Len(options.valueFilters) = 0 THEN [outcome |-> "data", frames |-> data]
    ELSE FrameLoop(options, data, 1, <<>>, <<>>)

(***************************************************************************)
(* The call as a state machine, one iteration of the filter loop per step. *)
(* pc is the position in the call: "call" before line 50, "filters" inside *)
(* the frame loop (frameIndex and filterIndex are the loop counters),      *)
(* "done" after the return or the throw.                                   *)
(***************************************************************************)
VARIABLES options, data, pc, frameIndex, filterIndex, includeThisRow, processed, outcome, result

vars == <<options, data, pc, frameIndex, filterIndex, includeThisRow, processed, outcome, result>>

Start ==
    /\ pc = "call"
    /\ frameIndex = 1
    /\ filterIndex = 0
    /\ includeThisRow = <<>>
    /\ processed = <<>>
    /\ outcome = "none"
    /\ result = <<>>

Init ==
    /\ options \in InputOptions
    /\ data \in SeqsUpTo(InputFrames, MaxFrames)
    /\ Start

\* The frames whose cells all hold the same value.
UniformFrames == {f \in InputFrames : \A j \in 1..Len(f.fields) : \A i \in 1..f.length :
                                          f.fields[j].values[i] = "ok"}

InitUniform ==
    /\ options \in InputOptions
    /\ data \in SeqsUpTo(UniformFrames, MaxFrames)
    /\ Start

InFilterLoop == pc = "filters" /\ frameIndex <= Len(data) /\ filterIndex < Len(options.valueFilters)

frame == data[frameIndex]

filter == options.valueFilters[filterIndex + 1]

\* The iteration of the filter loop the call is about to run.
step == FilterStep(includeThisRow, frame, filter, filterIndex,
                   options.type = "include", options.match = "all")

NextFilter ==
    /\ filterIndex' = filterIndex + 1
    /\ UNCHANGED <<options, data, pc, frameIndex, processed, outcome, result>>

\* lines 50-52: no filters, the input is returned.
ReturnNoFilters ==
    /\ pc = "call"
    /\ Len(options.valueFilters) = 0
    /\ pc' = "done"
    /\ outcome' = "data"
    /\ result' = data
    /\ UNCHANGED <<options, data, frameIndex, filterIndex, includeThisRow, processed>>

\* lines 54-58: processed and includeThisRow are created once, before the frame loop.
EnterLoop ==
    /\ pc = "call"
    /\ Len(options.valueFilters) > 0
    /\ pc' = "filters"
    /\ frameIndex' = 1
    /\ filterIndex' = 0
    /\ includeThisRow' = <<>>
    /\ processed' = <<>>
    /\ UNCHANGED <<options, data, outcome, result>>

\* lines 71-73: the frame has no field of that name, the filter is ignored.
NoField ==
    /\ InFilterLoop
    /\ FindField(frame, filter.fieldName) = 0
    /\ includeThisRow' = step.includeThisRow
    /\ NextFilter

\* line 76: the registry lookup throws, the call ends without a result.
LookupThrows ==
    /\ InFilterLoop
    /\ step.threw
    /\ pc' = "done"
    /\ outcome' = "error"
    /\ result' = <<>>
    /\ UNCHANGED <<options, data, frameIndex, filterIndex, includeThisRow, processed>>

\* lines 83-85: the instance is not valid, the filter is ignored.
InvalidInstance ==
    /\ InFilterLoop
    /\ FindField(frame, filter.fieldName) # 0
    /\ registryHas(filter.filterType)
    /\ ~getInstance(filter, frame.fields[FindField(frame, filter.fieldName)].type).isValid
    /\ includeThisRow' = step.includeThisRow
    /\ NextFilter

\* lines 87-105: the test is run on each row of the frame.
RunFilter ==
    /\ InFilterLoop
    /\ FindField(frame, filter.fieldName) # 0
    /\ registryHas(filter.filterType)
    /\ getInstance(filter, frame.fields[FindField(frame, filter.fieldName)].type).isValid
    /\ includeThisRow' = step.includeThisRow
    /\ NextFilter

\* lines 108-135: the filter loop of the frame is over, its included rows are copied.
CopyRows ==
    /\ pc = "filters"
    /\ frameIndex <= Len(data)
    /\ filterIndex >= Len(options.valueFilters)
    /\ processed' = Append(processed, BuildFrame(frame, includeThisRow))
    /\ frameIndex' = frameIndex + 1
    /\ filterIndex' = 0
    /\ UNCHANGED <<options, data, pc, includeThisRow, outcome, result>>

\* lines 137-141: the frame loop is over, the call returns processed or data.
Return ==
    /\ pc = "filters"
    /\ frameIndex > Len(data)
    /\ LET r == ReturnValue(data, processed, includeThisRow)
       IN /\ outcome' = r.outcome
          /\ result' = r.frames
    /\ pc' = "done"
    /\ UNCHANGED <<options, data, frameIndex, filterIndex, includeThisRow, processed>>

Next ==
    \/ ReturnNoFilters
    \/ EnterLoop
    \/ NoField
    \/ LookupThrows
    \/ InvalidInstance
    \/ RunFilter
    \/ CopyRows
    \/ Return

Spec == Init /\ [][Next]_vars

\* The same call on frames of uniform cells: the outcome of a call (data,
\* processed or error) with no applicable filter does not read the cells.
SpecUniform == InitUniform /\ [][Next]_vars

\* The step machine computes what the call computes.
StepsAgree ==
    pc = "done" => /\ outcome = Transformer(options, data).outcome
                   /\ result = Transformer(options, data).frames

(***************************************************************************)
(* Vocabulary of the properties.                                           *)
(***************************************************************************)
Done == pc = "done"

Returned == pc = "done" /\ outcome # "error"

includeRow == options.type = "include"

FilterIndices == 1..Len(options.valueFilters)

FrameIndices == 1..Len(data)

\* The filter resolves to a field of the frame.
Targets(f, fr) == FindField(fr, f.fieldName) # 0

\* The filter resolves to a field of the frame and yields a valid instance.
Applicable(f, fr) ==
    /\ Targets(f, fr)
    /\ registryHas(f.filterType)
    /\ getInstance(f, fr.fields[FindField(fr, f.fieldName)].type).isValid

\* The filter is skipped for the frame: no field, or an instance that is not valid.
Skipped(f, fr) ==
    \/ ~Targets(f, fr)
    \/ /\ registryHas(f.filterType)
       /\ ~getInstance(f, fr.fields[FindField(fr, f.fieldName)].type).isValid

\* The filter resolves to a field of the frame and its kind is not registered.
UnknownKindHit(f, fr) == Targets(f, fr) /\ ~registryHas(f.filterType)

\* test of an applicable filter on the 1-based row i of the frame.
Passes(f, fr, i) ==
    LET fld == fr.fields[FindField(fr, f.fieldName)]
    IN test(getInstance(f, fld.type), fld.values[i])

\* The elements of a finite set of integers in ascending order.
Ascending(S) == CHOOSE s \in [1..Cardinality(S) -> S] : \A i, j \in 1..Cardinality(S) : i < j => s[i] < s[j]

\* The frame fr reduced to its 1-based rows in S, in their original order.
KeepRows(fr, S) ==
    LET rows == Ascending(S)
    IN [fields |-> [j \in 1..Len(fr.fields) |->
                      [name |-> fr.fields[j].name,
                       type |-> fr.fields[j].type,
                       values |-> [i \in 1..Len(rows) |-> fr.fields[j].values[rows[i]]]]],
        length |-> Len(rows)]

RemoveAt(s, i) == [k \in 1..(Len(s) - 1) |-> IF k < i THEN s[k] ELSE s[k + 1]]

OtherType == IF options.type = "include" THEN "exclude" ELSE "include"

(***************************************************************************)
(* C1 to C6, C9, C10: the statements of the specification, as the code     *)
(* refutes them.                                                           *)
(***************************************************************************)
\* C1: per-frame pass-through.  When a frame F of the call has no field named by
\* any filter while another frame G has a field targeted by a valid filter, the
\* output frame at F's position is F with all its rows, and G's output is what the
\* filters select from G.
C1_PassThrough ==
    Returned =>
        \A F, G \in FrameIndices :
            (/\ F # G
             /\ \A i \in FilterIndices : ~Targets(options.valueFilters[i], data[F])
             /\ \E i \in FilterIndices : Applicable(options.valueFilters[i], data[G]))
            => /\ result[F] = data[F]
               /\ result[G] = Transformer(options, <<data[G]>>).frames[1]

\* C2: frames are processed independently.  At the start of each frame's filter
\* loop the row-decision vector holds no decision and does not reach past the
\* frame's rows, and the rows output for a frame are those the same options
\* select from that frame alone.
C2_FreshDecisions ==
    /\ (pc = "filters" /\ frameIndex <= Len(data) /\ filterIndex = 0) =>
          /\ \A i \in 1..Len(includeThisRow) : includeThisRow[i] = Undefined
          /\ Len(includeThisRow) <= frame.length
    /\ Returned =>
          \A k \in FrameIndices : result[k] = Transformer(options, <<data[k]>>).frames[1]

\* C3: row order preservation.  Each output frame is the input frame at the same
\* position reduced to some of its rows, in ascending original order; no output
\* frame is longer than its input frame.
C3_Subsequence ==
    Returned =>
        /\ Len(result) = Len(data)
        /\ \A k \in FrameIndices :
              /\ \E S \in SUBSET (1..data[k].length) : result[k] = KeepRows(data[k], S)
              /\ result[k].length <= data[k].length

\* C4: match "all" is a conjunction.  For a single frame with match = "all" and
\* type = "include" and at least one applicable filter, the output holds exactly
\* the rows on which every applicable filter tests true.
C4_AllIsConjunction ==
    (/\ Returned
     /\ Len(data) = 1
     /\ options.match = "all"
     /\ options.type = "include"
     /\ \E i \in FilterIndices : Applicable(options.valueFilters[i], data[1]))
    => result = <<KeepRows(data[1],
                    {r \in 1..data[1].length :
                        \A i \in FilterIndices :
                            Applicable(options.valueFilters[i], data[1])
                            => Passes(options.valueFilters[i], data[1], r)})>>

\* C5: match "any" is a disjunction.  For a single frame with match = "any" and
\* type = "include" and at least one applicable filter, the output holds exactly
\* the rows on which some applicable filter tests true (no row at all when no row
\* matches).
C5_AnyIsDisjunction ==
    (/\ Returned
     /\ Len(data) = 1
     /\ options.match = "any"
     /\ options.type = "include"
     /\ \E i \in FilterIndices : Applicable(options.valueFilters[i], data[1]))
    => result = <<KeepRows(data[1],
                    {r \in 1..data[1].length :
                        \E i \in FilterIndices :
                            /\ Applicable(options.valueFilters[i], data[1])
                            /\ Passes(options.valueFilters[i], data[1], r)})>>

\* C6: the sense flag inverts the selection.  For a single frame with at least one
\* applicable filter, the rows output with the other value of type are exactly the
\* rows of the frame that are not output with this one.
C6_SenseInverts ==
    (/\ Returned
     /\ Len(data) = 1
     /\ \E i \in FilterIndices : Applicable(options.valueFilters[i], data[1]))
    => \E S \in SUBSET (1..data[1].length) :
          /\ result = <<KeepRows(data[1], S)>>
          /\ Transformer([options EXCEPT !.type = OtherType], data).frames
                = <<KeepRows(data[1], (1..data[1].length) \ S)>>

\* C9: idempotence under match = "all", type = "include".  Applying the
\* transformer to its own output with the same options yields that output again.
C9_Idempotent ==
    (Returned /\ options.match = "all" /\ options.type = "include") =>
        Transformer(options, result).frames = result

\* C10: a skipped filter contributes nothing.  When a filter is skipped for every
\* frame and some other filter is applicable to some frame, the output equals the
\* output of the call with that filter removed from the list.
C10_SkippedFilterRemovable ==
    Returned =>
        \A i \in FilterIndices :
            (/\ \A k \in FrameIndices : Skipped(options.valueFilters[i], data[k])
             /\ \E j \in FilterIndices \ {i} : \E k \in FrameIndices :
                    Applicable(options.valueFilters[j], data[k]))
            => Transformer([options EXCEPT !.valueFilters = RemoveAt(@, i)], data).frames = result

(***************************************************************************)
(* C7, C8: the outcome of the call.                                        *)
(***************************************************************************)
NoApplicableFilter ==
    \A k \in FrameIndices : \A i \in FilterIndices : ~Applicable(options.valueFilters[i], data[k])

SomeUnknownKindHit ==
    \E k \in FrameIndices : \E i \in FilterIndices : UnknownKindHit(options.valueFilters[i], data[k])

\* C7 (as stated): the call ends in the lookup error, and returns no frames,
\* exactly when valueFilters holds a filter whose filterType is not registered.
C7_UnknownKindAlwaysFatal ==
    Done => /\ outcome = "error" <=> \E i \in FilterIndices : ~registryHas(options.valueFilters[i].filterType)
            /\ outcome = "error" => result = <<>>

\* C7 (amended): the call ends in the lookup error, and returns no frames, exactly
\* when a filter whose filterType is not registered names a field of some input
\* frame; a filter that is skipped for want of a field is never looked up.
C7_UnknownKindFatalWhenResolved ==
    Done => /\ outcome = "error" <=> SomeUnknownKindHit
            /\ outcome = "error" => result = <<>>

\* A call that threw on a later filter or frame, after rows had been decided.
C7_Witness == Done /\ outcome = "error" /\ Len(includeThisRow) > 0

\* C8 (as stated): when valueFilters is empty or no filter is applicable to any
\* frame, the call returns the input list itself.
C8_NoOpFallback ==
    (Done /\ NoApplicableFilter) => outcome = "data" /\ result = data

\* C8 (amended): when valueFilters is empty, or no filter is applicable to any
\* frame and no filter of an unregistered kind names a field of a frame, the call
\* returns the input list itself, every frame with its rows.
C8_NoOpFallbackUnlessThrown ==
    (Done /\ NoApplicableFilter /\ ~SomeUnknownKindHit) => outcome = "data" /\ result = data

\* A call with filters that all were skipped, on frames that have rows.
C8_Witness ==
    /\ Done
    /\ NoApplicableFilter
    /\ Len(options.valueFilters) > 0
    /\ \E k \in FrameIndices : \E i \in FilterIndices :
          data[k].length > 0 /\ Targets(options.valueFilters[i], data[k])
    /\ outcome = "data"
    /\ result = data

====
